---- MODULE Spec2Model ----
(***************************************************************************)
(* Model of source/modules/version_matcher.py: the version search query    *)
(* grammar (VERSION_SEARCH_REGEX, _parse, VersionSearchQuery) and the      *)
(* matcher (BInfoMatcher.match).                                           *)
(*                                                                         *)
(* Python str values are sequences of one-character strings, so that the   *)
(* regular expression, str() and int() are computed character by           *)
(* character.  A Python value that may be None, an int, a str or a         *)
(* datetime is a record [k, n, s, dt] whose k names the type.              *)
(***************************************************************************)
EXTENDS Integers, Sequences, FiniteSets, TLC

----------------------------------------------------------------------------
(* Bounds of the model *)

\* longest catalog handed to BInfoMatcher
MaxCat == 2
\* number of times parse is called on one input string
MaxCalls == 2
\* number of threads that call match on one matcher
MaxThreads == 2

----------------------------------------------------------------------------
(* Characters and character classes of the regular expression *)

\* A string is a sequence of characters. A character up to U+00FF is the
\* one-character string itself; a character above U+00FF is written as its
\* code point ("U+0663" is ARABIC-INDIC DIGIT THREE). Above U+00FF the model
\* has the whitespace characters, the Arabic-Indic digits and one letter.

DigitSeq == <<"0", "1", "2", "3", "4", "5", "6", "7", "8", "9">>

\* the ASCII digits: "0123456789"
AsciiDigits == {DigitSeq[i] : i \in 1..10}

\* ARABIC-INDIC DIGIT ZERO to NINE, decimal digits outside ASCII
ArabicIndicSeq ==
    <<"U+0660", "U+0661", "U+0662", "U+0663", "U+0664", "U+0665", "U+0666",
     "U+0667", "U+0668", "U+0669">>

\* \d of a str pattern: the decimal digits of Unicode
Digits == AsciiDigits \cup {ArabicIndicSeq[i] : i \in 1..10}

\* the characters U+0080 to U+00FF
Latin1High ==
    {"", "", "", "", "", "", "", "", "", "", "", "", "", "",
     "", "", "", "", "", "", "", "", "", "", "", "", "", "",
     "", "", "", "", " ", "¡", "¢", "£", "¤", "¥", "¦", "§", "¨", "©",
     "ª", "«", "¬", "­", "®", "¯", "°", "±", "²", "³", "´", "µ", "¶", "·",
     "¸", "¹", "º", "»", "¼", "½", "¾", "¿", "À", "Á", "Â", "Ã", "Ä", "Å",
     "Æ", "Ç", "È", "É", "Ê", "Ë", "Ì", "Í", "Î", "Ï", "Ð", "Ñ", "Ò", "Ó",
     "Ô", "Õ", "Ö", "×", "Ø", "Ù", "Ú", "Û", "Ü", "Ý", "Þ", "ß", "à", "á",
     "â", "ã", "ä", "å", "æ", "ç", "è", "é", "ê", "ë", "ì", "í", "î", "ï",
     "ð", "ñ", "ò", "ó", "ô", "õ", "ö", "÷", "ø", "ù", "ú", "û", "ü", "ý",
     "þ", "ÿ"}

\* the characters outside ASCII
NonAscii ==
    Latin1High \cup {ArabicIndicSeq[i] : i \in 1..10} \cup {"U+0416"}
    \cup
    {"U+1680", "U+2000", "U+2001", "U+2002", "U+2003", "U+2004", "U+2005",
     "U+2006", "U+2007", "U+2008", "U+2009", "U+200A", "U+2028", "U+2029",
     "U+202F", "U+205F", "U+3000"}

\* the characters of \w that are neither decimal digits nor "_": the letters
\* of ASCII, the alphanumeric characters of U+0080 to U+00FF, and
\* CYRILLIC CAPITAL LETTER ZHE
Letters ==
    {"a", "b", "c", "d", "e", "f", "g", "h", "i", "j", "k", "l", "m", "n",
     "o", "p", "q", "r", "s", "t", "u", "v", "w", "x", "y", "z", "A", "B",
     "C", "D", "E", "F", "G", "H", "I", "J", "K", "L", "M", "N", "O", "P",
     "Q", "R", "S", "T", "U", "V", "W", "X", "Y", "Z"}
    \cup
    {"ª", "²", "³", "µ", "¹", "º", "¼", "½", "¾", "À", "Á", "Â", "Ã", "Ä",
     "Å", "Æ", "Ç", "È", "É", "Ê", "Ë", "Ì", "Í", "Î", "Ï", "Ð", "Ñ", "Ò",
     "Ó", "Ô", "Õ", "Ö", "Ø", "Ù", "Ú", "Û", "Ü", "Ý", "Þ", "ß", "à", "á",
     "â", "ã", "ä", "å", "æ", "ç", "è", "é", "ê", "ë", "ì", "í", "î", "ï",
     "ð", "ñ", "ò", "ó", "ô", "õ", "ö", "ø", "ù", "ú", "û", "ü", "ý", "þ",
     "ÿ"}
    \cup {"U+0416"}

\* [\d\w]
WordChars == Digits \cup Letters \cup {"_"}

\* \s of a str pattern: the whitespace of Unicode
Whitespace ==
    {"\t", "\n", "", "\f", "\r", "", "", "", "", " "}
    \cup
    {"", " "}
    \cup
    {"U+1680", "U+2000", "U+2001", "U+2002", "U+2003", "U+2004", "U+2005",
     "U+2006", "U+2007", "U+2008", "U+2009", "U+200A", "U+2028", "U+2029",
     "U+202F", "U+205F", "U+3000"}

\* [\^\-\*]
ModeChars == {"^", "-", "*"}

\* the characters a branch may NOT contain: [^\@\s\+]
BranchExcluded == {"@", "+"} \cup Whitespace

\* [\dT\+\:Z\ \^\-]
TimeChars == Digits \cup {"T", "+", ":", "Z", " ", "^", "-"}

\* the characters c with c.isnumeric(): the decimal digits, and the
\* superscripts and fractions of U+0080 to U+00FF
NumericChars ==
    Digits \cup
    {"²", "³", "¹", "¼", "½", "¾"}

\* the value of a decimal digit
DigitVal(c) ==
    CHOOSE d \in 0..9 : DigitSeq[d + 1] = c \/ ArabicIndicSeq[d + 1] = c

\* the element of a one-element set: binds a value that is computed once
Only(S) == CHOOSE x \in S : TRUE

Slice(s, i, j) == [x \in 1..(j - i + 1) |-> s[i + x - 1]]

AllIn(s, cls) == \A i \in 1..Len(s) : s[i] \in cls

\* int(s) of a run of decimal digits
RECURSIVE ToInt(_)
ToInt(s) ==
    IF Len(s) = 0 THEN 0
    ELSE 10 * ToInt(Slice(s, 1, Len(s) - 1)) + DigitVal(s[Len(s)])

\* the decimal digits of a natural number
RECURSIVE NatStr(_)
NatStr(n) ==
    IF n < 10 THEN <<DigitSeq[n + 1]>>
    ELSE NatStr(n \div 10) \o <<DigitSeq[(n % 10) + 1]>>

\* f"{n}" of an int
IntStr(n) == IF n < 0 THEN <<"-">> \o NatStr(0 - n) ELSE NatStr(n)

\* "%0*d": n zero-padded to width w
RECURSIVE Pad(_, _)
Pad(n, w) == IF w = 0 THEN <<>> ELSE Pad(n \div 10, w - 1) \o <<DigitSeq[(n % 10) + 1]>>

\* t occurs in s as a contiguous substring
Contains(s, t) ==
    \E i \in 0..(Len(s) - Len(t)) : \A x \in 1..Len(t) : s[i + x] = t[x]

----------------------------------------------------------------------------
(* datetime.datetime *)

\* tz is "aware" (tzinfo set) or "naive". The utcoffset of an aware value is
\* off minutes, offs seconds and offus microseconds, with offs in 0..59 and
\* offus in 0..999999 (-00:00:30 is off = -1, offs = 30); fold is 0 or 1;
\* named tells that the tzinfo is a timezone made with a name, as
\* timezone(timedelta(0), "GMT"). MkDt makes a value of fold 0 whose offset is
\* whole minutes and whose timezone has no name
MkDt(y, mo, d, h, mi, sec, us, tz, off) ==
    [y |-> y, mo |-> mo, d |-> d, h |-> h, mi |-> mi, sec |-> sec,
     us |-> us, tz |-> tz, off |-> off, offs |-> 0, offus |-> 0, fold |-> 0,
     named |-> FALSE]

NullDt == MkDt(0, 0, 0, 0, 0, 0, 0, "null", 0)

IsLeap(y) == (y % 4 = 0) /\ ((y % 100 # 0) \/ (y % 400 = 0))

DaysInMonth(y, mo) ==
    IF mo = 2 THEN (IF IsLeap(y) THEN 29 ELSE 28)
    ELSE IF mo \in {4, 6, 9, 11} THEN 30 ELSE 31

RECURSIVE DaysBeforeMonth(_, _)
DaysBeforeMonth(y, mo) ==
    IF mo = 1 THEN 0 ELSE DaysBeforeMonth(y, mo - 1) + DaysInMonth(y, mo - 1)

\* date.toordinal()
Ordinal(y, mo, d) ==
    LET p == y - 1
    IN  p * 365 + (p \div 4) - (p \div 100) + (p \div 400) + DaysBeforeMonth(y, mo) + d

\* date.max.toordinal()
MaxOrdinal == Ordinal(9999, 12, 31)

\* minutes since midnight of the wall clock, less the minutes of the UTC
\* offset
Minutes(t) == t.h * 60 + t.mi - t.off

\* the wall clock less the UTC offset, as the ordinal of the day, the minute
\* of the day, seconds and microseconds; the day is outside 1..MaxOrdinal
\* when the instant is no datetime on the UTC clock
Instant(t) ==
    Only({Only({Only({<<Ordinal(t.y, t.mo, t.d) + (m \div 1440), m % 1440,
                        sd % 60, ud % 1000000>> :
                          m \in {Minutes(t) + (sd \div 60)}}) :
                    sd \in {t.sec - t.offs + (ud \div 1000000)}}) :
              ud \in {t.us - t.offus}})

\* datetime.__eq__: aware values compare as instants, naive ones by their
\* fields, and a naive value never equals an aware one
DtEq(a, b) ==
    /\ a.tz = b.tz
    /\ Instant(a) = Instant(b)

\* datetime.__lt__ of two values of the same awareness
DtLt(a, b) ==
    \E x \in {Instant(a)}, y \in {Instant(b)} :
        \/ x[1] < y[1]
        \/ x[1] = y[1] /\ x[2] < y[2]
        \/ x[1] = y[1] /\ x[2] = y[2] /\ x[3] < y[3]
        \/ x[1] = y[1] /\ x[2] = y[2] /\ x[3] = y[3] /\ x[4] < y[4]

\* the utcoffset of an aware t as isoformat writes it: the sign, HH:MM, then
\* :SS when there are seconds or microseconds, then .ffffff when there are
\* microseconds
OffsetStr(t) ==
    Only({Only({(IF t.off < 0 THEN <<"-">> ELSE <<"+">>)
                \o Pad(secs \div 3600, 2) \o <<":">> \o Pad((secs \div 60) % 60, 2)
                \o (IF secs % 60 # 0 \/ usecs # 0
                    THEN <<":">> \o Pad(secs % 60, 2) ELSE <<>>)
                \o (IF usecs # 0 THEN <<".">> \o Pad(usecs, 6) ELSE <<>>) :
                    secs \in {IF t.off < 0
                              THEN 0 - (t.off * 60 + t.offs) - (IF t.offus > 0 THEN 1 ELSE 0)
                              ELSE t.off * 60 + t.offs}}) :
              usecs \in {IF t.off < 0 THEN (1000000 - t.offus) % 1000000 ELSE t.offus}})

\* str(datetime) == isoformat(sep=" ")
DtStr(t) ==
    Pad(t.y, 4) \o <<"-">> \o Pad(t.mo, 2) \o <<"-">> \o Pad(t.d, 2) \o <<" ">>
    \o Pad(t.h, 2) \o <<":">> \o Pad(t.mi, 2) \o <<":">> \o Pad(t.sec, 2)
    \o (IF t.us # 0 THEN <<".">> \o Pad(t.us, 6) ELSE <<>>)
    \o (IF t.tz = "aware" THEN OffsetStr(t) ELSE <<>>)

OrdinalMsg ==
    <<"o", "r", "d", "i", "n", "a", "l", " ", "m", "u", "s", "t", " ", "b",
      "e", " ", ">", "=", " ", "1">>

DateRangeMsg ==
    <<"d", "a", "t", "e", " ", "v", "a", "l", "u", "e", " ", "o", "u", "t",
      " ", "o", "f", " ", "r", "a", "n", "g", "e">>

\* "year %i is out of range"
YearMsg(y) ==
    <<"y", "e", "a", "r", " ">>
    \o IntStr(y)
    \o <<" ", "i", "s", " ", "o", "u", "t", " ", "o", "f", " ", "r", "a", "n", "g", "e">>

NoYmd == <<0, 0, 0>>

\* date.fromordinal(n) for a date within a year of year y: year, month and
\* day in c, or the ValueError of an ordinal that is no date
FromOrdinal(n, y) ==
    IF n < 1 THEN [exc |-> "ValueError", msg |-> OrdinalMsg, c |-> NoYmd]
    ELSE IF n > MaxOrdinal
    THEN [exc |-> "ValueError", msg |-> YearMsg(10000), c |-> NoYmd]
    ELSE Only({Only({[exc |-> "", msg |-> <<>>,
                      c |-> <<yy, mo, n - Ordinal(yy, mo, 1) + 1>>] :
                         mo \in {CHOOSE mo \in 1..12 :
                                     /\ Ordinal(yy, mo, 1) <= n
                                     /\ n <= Ordinal(yy, mo, DaysInMonth(yy, mo))}}) :
                   yy \in {CHOOSE yy \in {y - 1, y, y + 1} \cap 1..9999 :
                               Ordinal(yy, 1, 1) <= n /\ n <= Ordinal(yy, 12, 31)}})

\* the datetime of the instant x on the UTC clock, or the OverflowError of an
\* instant before 0001-01-01 or after 9999-12-31
UtcOf(x, y) ==
    IF x[1] < 1 \/ x[1] > MaxOrdinal
    THEN [exc |-> "OverflowError", msg |-> DateRangeMsg, dt |-> NullDt]
    ELSE Only({[exc |-> "", msg |-> <<>>,
                dt |-> MkDt(c[1], c[2], c[3], x[2] \div 60, x[2] % 60, x[3], x[4],
                            "aware", 0)] :
                   c \in {FromOrdinal(x[1], y).c}})

\* the local time zone of a naive t, found by reading t as a UTC time and
\* taking the local time of it, and then of the day before when t.fold is 0
\* and of the day after when it is 1: the ValueError of either being in no
\* year of 1..9999, "" otherwise
LocalProbe(t, local) ==
    Only({IF day > MaxOrdinal THEN YearMsg(10000)
          ELSE IF day < 1 THEN YearMsg(0)
          ELSE IF t.fold = 0 /\ Ordinal(t.y, t.mo, t.d) - 1 < 1 THEN YearMsg(0)
          ELSE IF t.fold = 1 /\ Ordinal(t.y, t.mo, t.d) + 1 > MaxOrdinal
          THEN YearMsg(10000)
          ELSE <<>> :
              day \in {Instant([t EXCEPT !.off = 0 - local, !.us = 0])[1]}})

\* t.astimezone(utc): the same instant on the UTC clock, with fold 0; a
\* naive t is taken as local time, local being the UTC offset of the system
\* time zone in minutes; a t whose tzinfo is the utc object (the timezone of
\* offset zero without a name) is returned as it is
AsTimezoneUtc(t, local) ==
    IF t.tz = "naive"
    THEN Only({IF m # <<>> THEN [exc |-> "ValueError", msg |-> m, dt |-> NullDt]
               ELSE UtcOf(Instant([t EXCEPT !.off = local]), t.y) :
                   m \in {LocalProbe(t, local)}})
    ELSE IF t.off = 0 /\ t.offs = 0 /\ t.offus = 0 /\ ~t.named
    THEN [exc |-> "", msg |-> <<>>, dt |-> t]
    ELSE UtcOf(Instant(t), t.y)

----------------------------------------------------------------------------
(* datetime.datetime.fromisoformat *)

\* the character at position i of s; "" past the end of s (the NUL that
\* ends the buffer)
At(s, i) == IF i \in 1..Len(s) THEN s[i] ELSE ""

\* parse_digits: n ASCII digits start at s[p]
DigitsAt(s, p, n) == \A k \in 0..(n - 1) : At(s, p + k) \in AsciiDigits

\* end of the longest run of ASCII digits that starts at s[i]
RECURSIVE DigitRunEnd(_, _)
DigitRunEnd(s, i) ==
    IF i <= Len(s) /\ s[i] \in AsciiDigits THEN DigitRunEnd(s, i + 1) ELSE i

\* the first position from i on of a character of "Z+-", Len(s) + 1 when
\* there is none
RECURSIVE ZonePos(_, _)
ZonePos(s, i) ==
    IF i <= Len(s) /\ s[i] \notin {"Z", "+", "-"} THEN ZonePos(s, i + 1) ELSE i

\* _find_isoformat_datetime_separator: the length of the date part of a
\* string of 7 characters or more, 0 for ValueError
IsoDateLen(s) ==
    IF Len(s) = 7 THEN 7
    ELSE IF s[5] = "-"
    THEN IF s[6] = "W"
         THEN IF Len(s) > 8 /\ s[9] = "-"
              THEN IF Len(s) = 9 THEN 0
                   ELSE IF Len(s) > 10 /\ s[11] \in AsciiDigits THEN 8
                   ELSE 10
              ELSE 8
         ELSE 10
    ELSE IF s[5] = "W"
    THEN Only({IF idx < 9 THEN idx ELSE IF idx % 2 = 0 THEN 7 ELSE 8 :
                   idx \in {DigitRunEnd(s, 8) - 1}})
    ELSE 8

\* a date that is not there: ValueError
NoDate == [ok |-> FALSE, y |-> 0, mo |-> 0, d |-> 0]

\* the ordinal of the Monday of ISO week 1 of a year that starts on the
\* day of ordinal jan1
IsoWeek1Monday(jan1) ==
    jan1 - ((jan1 + 6) % 7) + (IF (jan1 + 6) % 7 > 3 THEN 7 ELSE 0)

\* iso_to_ymd: the date of day dy of ISO week wk of ISO year y
IsoToYmd(y, wk, dy) ==
    IF y < 1 \/ dy < 1 \/ dy > 7 \/ wk < 1 \/ wk > 53 THEN NoDate
    ELSE Only({IF wk = 53 /\ ~(jan1 % 7 = 4 \/ (jan1 % 7 = 3 /\ IsLeap(y))) THEN NoDate
               ELSE Only({IF od < 1 \/ od > Ordinal(9999, 12, 31) THEN NoDate
                          ELSE Only({[ok |-> TRUE, y |-> c[1], mo |-> c[2], d |-> c[3]] :
                                         c \in {FromOrdinal(od, y).c}}) :
                              od \in {IsoWeek1Monday(jan1) + (wk - 1) * 7 + dy - 1}}) :
                   jan1 \in {Ordinal(y, 1, 1)}})

\* the week form of parse_isoformat_date, after the "W" at s[p - 1]:
\* ww, then the day number when the date part (of length dlen) goes on
IsoWeekDate(s, dlen, y, uses, p) ==
    IF ~DigitsAt(s, p, 2) THEN NoDate
    ELSE IF p + 1 >= dlen THEN IsoToYmd(y, ToInt(Slice(s, p, p + 1)), 1)
    ELSE IF uses /\ At(s, p + 2) # "-" THEN NoDate
    ELSE Only({IF ~DigitsAt(s, q, 1) THEN NoDate
               ELSE IsoToYmd(y, ToInt(Slice(s, p, p + 1)), DigitVal(s[q])) :
                   q \in {IF uses THEN p + 3 ELSE p + 2}})

\* parse_isoformat_date on the buffer s: YYYY, then "-" or not, then Www and
\* a day, or MM and DD with the same use of "-"
IsoDate(s, dlen) ==
    IF ~DigitsAt(s, 1, 4) THEN NoDate
    ELSE Only({IF At(s, p) = "W"
               THEN IsoWeekDate(s, dlen, ToInt(Slice(s, 1, 4)), p = 6, p + 1)
               ELSE IF ~DigitsAt(s, p, 2) THEN NoDate
               ELSE IF p = 6 /\ At(s, p + 2) # "-" THEN NoDate
               ELSE Only({IF ~DigitsAt(s, q, 2) THEN NoDate
                          ELSE [ok |-> TRUE, y |-> ToInt(Slice(s, 1, 4)),
                                mo |-> ToInt(Slice(s, p, p + 1)),
                                d |-> ToInt(Slice(s, q, q + 1))] :
                              q \in {IF p = 6 THEN p + 3 ELSE p + 2}}) :
                   p \in {IF At(s, 5) = "-" THEN 6 ELSE 5}})

\* a time that is not there: rv < 0 of parse_hh_mm_ss_ff
NoTime == [rv |-> 0 - 1, h |-> 0, mi |-> 0, sec |-> 0, us |-> 0]

\* the fraction of parse_hh_mm_ss_ff at s[p], in a part that ends before
\* position end: up to six digits are the microseconds, further digits are
\* skipped, and rv is 1 when the buffer does not end there
IsoFraction(s, p, end, v) ==
    Only({IF ~DigitsAt(s, p, n) THEN NoTime
          ELSE [rv |-> IF At(s, DigitRunEnd(s, p + n)) # "" THEN 1 ELSE 0,
                h |-> v[1], mi |-> v[2], sec |-> v[3],
                us |-> ToInt(Slice(s, p, p + n - 1)) * (10 ^ (6 - n))] :
              n \in {IF end - p >= 6 THEN 6 ELSE end - p}})

\* the loop of parse_hh_mm_ss_ff from component i (1 hour, 2 minute,
\* 3 second) at s[p]: two digits, then the character c after them. The part
\* is over when nothing follows c (rv tells whether c is a character); c goes
\* on to the next component when it is the ":" that followed the hour, to
\* the fraction when it is "." or ",", and is read again as a digit when no
\* ":" followed the hour. A c outside ASCII is more than one byte of the
\* buffer, which no case accepts.
RECURSIVE IsoComps(_, _, _, _, _, _)
IsoComps(s, p, end, i, hasSep, v) ==
    IF ~DigitsAt(s, p, 2) THEN NoTime
    ELSE \* c, has_separator, and the components so far
         Only({Only({Only({
             IF c \in NonAscii THEN NoTime
             ELSE IF p + 3 >= end
             THEN [rv |-> IF c # "" THEN 1 ELSE 0,
                   h |-> w[1], mi |-> w[2], sec |-> w[3], us |-> 0]
             ELSE IF hs /\ c = ":"
             THEN (IF i < 3 THEN IsoComps(s, p + 3, end, i + 1, hs, w)
                   ELSE IsoFraction(s, p + 3, end, w))
             ELSE IF c \in {".", ","} THEN IsoFraction(s, p + 3, end, w)
             ELSE IF ~hs
             THEN (IF i < 3 THEN IsoComps(s, p + 2, end, i + 1, hs, w)
                   ELSE IsoFraction(s, p + 2, end, w))
             ELSE NoTime :
                 w \in {[v EXCEPT ![i] = ToInt(Slice(s, p, p + 1))]}}) :
                 hs \in {IF i = 1 THEN c = ":" ELSE hasSep}}) :
                 c \in {At(s, p + 2)}})

\* the time and the zone that fromisoformat did not find: ValueError
NoClock ==
    [ok |-> FALSE, h |-> 0, mi |-> 0, sec |-> 0, us |-> 0, tz |-> "null",
     off |-> 0, offs |-> 0, offus |-> 0]

\* the clock fields of a time r of parse_hh_mm_ss_ff, with a zone
Clock(r, tz, off, offs, offus) ==
    [ok |-> TRUE, h |-> r.h, mi |-> r.mi, sec |-> r.sec, us |-> r.us, tz |-> tz,
     off |-> off, offs |-> offs, offus |-> offus]

\* the tzinfo made of an offset z of parse_hh_mm_ss_ff and its sign: UTC
\* when hours, minutes and seconds come to zero (whatever the microseconds),
\* ValueError when the offset is not strictly between -24 and 24 hours
ZoneOf(r, z, negative) ==
    Only({IF secs = 0 THEN Clock(r, "aware", 0, 0, 0)
          ELSE IF secs >= 86400 THEN NoClock
          ELSE IF ~negative THEN Clock(r, "aware", secs \div 60, secs % 60, z.us)
          ELSE Only({Clock(r, "aware", fl \div 60, fl % 60, (1000000 - z.us) % 1000000) :
                         fl \in {0 - secs - (IF z.us > 0 THEN 1 ELSE 0)}}) :
              secs \in {z.h * 3600 + z.mi * 60 + z.sec}})

\* parse_isoformat_time on the part of s from t0 on: the time before the
\* first "Z", "+" or "-", then the zone. A character left over after the
\* time is an error only when no zone follows.
IsoTime(s, t0) ==
    Only({Only({
        IF r.rv < 0 THEN NoClock
        ELSE IF tzp = Len(s) + 1
        THEN (IF r.rv = 1 THEN NoClock ELSE Clock(r, "naive", 0, 0, 0))
        ELSE IF s[tzp] = "Z"
        THEN (IF tzp # Len(s) THEN NoClock ELSE Clock(r, "aware", 0, 0, 0))
        ELSE Only({IF z.rv # 0 THEN NoClock ELSE ZoneOf(r, z, s[tzp] = "-") :
                       z \in {IsoComps(s, tzp + 1, Len(s) + 1, 1, TRUE, <<0, 0, 0>>)}}) :
            r \in {IsoComps(s, t0, tzp, 1, TRUE, <<0, 0, 0>>)}}) :
            tzp \in {ZonePos(s, t0)}})

\* midnight without a zone: the string has a date only
Midnight == Clock([h |-> 0, mi |-> 0, sec |-> 0, us |-> 0], "naive", 0, 0, 0)

\* the datetime constructor on the fields that were parsed: ok = FALSE when
\* a field is out of range
IsoMake(date, clock) ==
    IF /\ date.ok /\ clock.ok
       /\ date.y >= 1 /\ date.mo \in 1..12
       /\ date.d >= 1 /\ date.d <= DaysInMonth(date.y, date.mo)
       /\ clock.h <= 23 /\ clock.mi <= 59 /\ clock.sec <= 59
    THEN [ok |-> TRUE,
          dt |-> [y |-> date.y, mo |-> date.mo, d |-> date.d, h |-> clock.h,
                  mi |-> clock.mi, sec |-> clock.sec, us |-> clock.us,
                  tz |-> clock.tz, off |-> clock.off, offs |-> clock.offs,
                  offus |-> clock.offus, fold |-> 0, named |-> FALSE]]
    ELSE [ok |-> FALSE, dt |-> NullDt]

\* datetime.datetime.fromisoformat(s) of Python 3.11; ok = FALSE stands for
\* ValueError. The date part is followed by one separator character, of any
\* kind, and the time part
FromIsoFormat(s) ==
    IF Len(s) < 7 THEN [ok |-> FALSE, dt |-> NullDt]
    ELSE Only({IF dlen = 0 THEN [ok |-> FALSE, dt |-> NullDt]
               ELSE Only({IF ~date.ok THEN [ok |-> FALSE, dt |-> NullDt]
                          ELSE IF dlen >= Len(s) THEN IsoMake(date, Midnight)
                          ELSE IsoMake(date, IsoTime(s, dlen + 2)) :
                              date \in {IsoDate(s, dlen)}}) :
                   dlen \in {IsoDateLen(s)}})

----------------------------------------------------------------------------
(* Python values: None, int, str, datetime *)

NoneV == [k |-> "none", n |-> 0, s |-> <<>>, dt |-> NullDt]
IntV(n) == [k |-> "int", n |-> n, s |-> <<>>, dt |-> NullDt]
StrV(s) == [k |-> "str", n |-> 0, s |-> s, dt |-> NullDt]
DtV(t) == [k |-> "dt", n |-> 0, s |-> <<>>, dt |-> t]

\* a == b
PyEq(a, b) ==
    /\ a.k = b.k
    /\ IF a.k = "dt" THEN DtEq(a.dt, b.dt) ELSE a = b

\* a == "<c>" for a one-character string literal
IsSym(a, c) == a.k = "str" /\ a.s = <<c>>

\* bool(a) of None or a str ("if self.branch", "if self.commit_time")
Truthy(a) == a.k # "none" /\ ~(a.k = "str" /\ a.s = <<>>)

\* f"{a}"
Fmt(a) ==
    IF a.k = "int" THEN IntStr(a.n)
    ELSE IF a.k = "str" THEN a.s
    ELSE IF a.k = "dt" THEN DtStr(a.dt)
    ELSE <<"N", "o", "n", "e">>

----------------------------------------------------------------------------
(* VERSION_SEARCH_REGEX *)

\* end of the longest run of characters of cls that starts at s[i]: the
\* first position from i on whose character is not of cls, past the end of
\* s when there is none
RunEnd(s, i, cls) ==
    IF i > Len(s) THEN i
    ELSE Only({IF stops = {} THEN Len(s) + 1
               ELSE CHOOSE j \in stops : \A k \in stops : j <= k :
                   stops \in {{j \in i..Len(s) : s[j] \notin cls}}})

\* end of the longest run of characters outside excl that starts at s[i]
RECURSIVE RunEndNot(_, _, _)
RunEndNot(s, i, excl) ==
    IF i <= Len(s) /\ s[i] \notin excl THEN RunEndNot(s, i + 1, excl) ELSE i

\* ([\^\-\*]|\d+) at s[i]: the position after the token, i when there is none
VerTokEnd(s, i) ==
    IF i <= Len(s) /\ s[i] \in ModeChars THEN i + 1 ELSE RunEnd(s, i, Digits)

\* "$" without re.MULTILINE: the end of the string, or just before a newline
\* that is the last character of the string
AtEnd(s, i) == i = Len(s) + 1 \/ (i = Len(s) /\ s[i] = "\n")

\* no match: VERSION_SEARCH_REGEX.match(s) is None
NoMatch ==
    [ok |-> FALSE, g1 |-> NoneV, g2 |-> NoneV, g3 |-> NoneV, g4 |-> NoneV,
     g5 |-> NoneV, g6 |-> NoneV]

\* the groups of a match whose tokens end at e1, e2, e3, eB, eH (eB = e3 when
\* there is no branch part, eH = eB when there is no build_hash part) and
\* whose commit-time group is g6
Groups(s, e1, e2, e3, eB, eH, g6) ==
    [ok |-> TRUE,
     g1 |-> StrV(Slice(s, 1, e1 - 1)),
     g2 |-> StrV(Slice(s, e1 + 1, e2 - 1)),
     g3 |-> StrV(Slice(s, e2 + 1, e3 - 1)),
     g4 |-> IF eB > e3 THEN StrV(Slice(s, e3 + 1, eB - 1)) ELSE NoneV,
     g5 |-> IF eH > eB THEN StrV(Slice(s, eB + 1, eH - 1)) ELSE NoneV,
     g6 |-> g6]

\* (?:\@([\^\-\*]|[\dT\+\:Z\ \^\-]+))?$ at s[eH]
MatchTime(s, e1, e2, e3, eB, eH) ==
    IF eH <= Len(s) /\ s[eH] = "@"
    THEN IF eH + 1 <= Len(s) /\ s[eH + 1] \in ModeChars /\ AtEnd(s, eH + 2)
         THEN Groups(s, e1, e2, e3, eB, eH, StrV(<<s[eH + 1]>>))
         ELSE Only({IF eT > eH + 1 /\ AtEnd(s, eT)
                    THEN Groups(s, e1, e2, e3, eB, eH, StrV(Slice(s, eH + 1, eT - 1)))
                    ELSE NoMatch :
                        eT \in {RunEnd(s, eH + 1, TimeChars)}})
    ELSE IF AtEnd(s, eH) THEN Groups(s, e1, e2, e3, eB, eH, NoneV)
    ELSE NoMatch

\* (?:\+([\d\w]+))? at s[eB], and what follows
MatchHash(s, e1, e2, e3, eB) ==
    IF eB <= Len(s) /\ s[eB] = "+"
    THEN Only({IF eH > eB + 1 THEN MatchTime(s, e1, e2, e3, eB, eH) ELSE NoMatch :
                   eH \in {RunEnd(s, eB + 1, WordChars)}})
    ELSE MatchTime(s, e1, e2, e3, eB, eB)

\* (?:\-([^\@\s\+]+))? at s[e3], and what follows
MatchBranch(s, e1, e2, e3) ==
    IF e3 <= Len(s) /\ s[e3] = "-"
    THEN Only({IF eB > e3 + 1 THEN MatchHash(s, e1, e2, e3, eB) ELSE NoMatch :
                   eB \in {RunEndNot(s, e3 + 1, BranchExcluded)}})
    ELSE MatchHash(s, e1, e2, e3, e3)

\* \.([\^\-\*]|\d+) at s[e2], and what follows
MatchPatch(s, e1, e2) ==
    IF e2 > e1 + 1 /\ e2 <= Len(s) /\ s[e2] = "."
    THEN Only({IF e3 > e2 + 1 THEN MatchBranch(s, e1, e2, e3) ELSE NoMatch :
                   e3 \in {VerTokEnd(s, e2 + 1)}})
    ELSE NoMatch

\* \.([\^\-\*]|\d+) at s[e1], and what follows
MatchMinor(s, e1) ==
    IF e1 > 1 /\ e1 <= Len(s) /\ s[e1] = "."
    THEN Only({MatchPatch(s, e1, e2) : e2 \in {VerTokEnd(s, e1 + 1)}})
    ELSE NoMatch

\* VERSION_SEARCH_REGEX.match(s): ok, and the six groups (NoneV for a group
\* that did not take part in the match)
RegexMatch(s) == Only({MatchMinor(s, e1) : e1 \in {VerTokEnd(s, 1)}})

----------------------------------------------------------------------------
(* _parse and VersionSearchQuery *)

MkQuery(major, minor, patch, branch, build_hash, commit_time) ==
    [major |-> major, minor |-> minor, patch |-> patch, branch |-> branch,
     build_hash |-> build_hash, commit_time |-> commit_time]

\* stands for "no query object"
NoQuery == MkQuery(NoneV, NoneV, NoneV, NoneV, NoneV, NoneV)

\* VersionSearchQuery.__eq__ (dataclass): the field tuples are equal
QueryEq(a, b) ==
    /\ PyEq(a.major, b.major) /\ PyEq(a.minor, b.minor) /\ PyEq(a.patch, b.patch)
    /\ PyEq(a.branch, b.branch) /\ PyEq(a.build_hash, b.build_hash)
    /\ PyEq(a.commit_time, b.commit_time)

InvalidPrefix ==
    <<"I", "n", "v", "a", "l", "i", "d", " ", "v", "e", "r", "s", "i", "o", "n",
      " ", "s", "e", "a", "r", "c", "h", " ", "q", "u", "e", "r", "y", ":", " ">>

MustBeSuffix ==
    <<" ", "m", "u", "s", "t", " ", "b", "e", " ", "i", "n", " ", "[", "\"", "^",
      "\"", ",", " ", "\"", "*", "\"", ",", " ", "\"", "-", "\"", "]">>

HashMsg ==
    <<"b", "u", "i", "l", "d", "_", "h", "a", "s", "h", " ", "c", "a", "n", "n",
      "o", "t", " ", "b", "e", " ", "t", "e", "m", "p", "o", "r", "a", "l", "l",
      "y", " ", "m", "a", "t", "c", "h", "e", "d">>

BranchMsg ==
    <<"b", "r", "a", "n", "c", "h", " ", "c", "a", "n", "n", "o", "t", " ", "b",
      "e", " ", "t", "e", "m", "p", "o", "r", "a", "l", "l", "y", " ", "m", "a",
      "t", "c", "h", "e", "d">>

\* sys.int_info.default_max_str_digits: int() converts no more digits
MaxStrDigits == 4300

ExceedsPrefix ==
    <<"E", "x", "c", "e", "e", "d", "s", " ", "t", "h", "e", " ", "l", "i",
      "m", "i", "t", " ", "(">>

ExceedsMiddle ==
    <<" ", "d", "i", "g", "i", "t", "s", ")", " ", "f", "o", "r", " ", "i",
      "n", "t", "e", "g", "e", "r", " ", "s", "t", "r", "i", "n", "g", " ",
      "c", "o", "n", "v", "e", "r", "s", "i", "o", "n", ":", " ", "v", "a",
      "l", "u", "e", " ", "h", "a", "s", " ">>

ExceedsSuffix ==
    <<" ", "d", "i", "g", "i", "t", "s", ";", " ", "u", "s", "e", " ", "s",
      "y", "s", ".", "s", "e", "t", "_", "i", "n", "t", "_", "m", "a", "x",
      "_", "s", "t", "r", "_", "d", "i", "g", "i", "t", "s", "(", ")", " ",
      "t", "o", " ", "i", "n", "c", "r", "e", "a", "s", "e", " ", "t", "h",
      "e", " ", "l", "i", "m", "i", "t">>

InvalidLiteralPrefix ==
    <<"i", "n", "v", "a", "l", "i", "d", " ", "l", "i", "t", "e", "r", "a",
      "l", " ", "f", "o", "r", " ", "i", "n", "t", "(", ")", " ", "w", "i",
      "t", "h", " ", "b", "a", "s", "e", " ", "1", "0", ":", " ">>

\* the first n characters of s, all of s when it is shorter
Take(s, n) == IF Len(s) <= n THEN s ELSE Slice(s, 1, n)

\* the group kept as text, without the conversion to int
NumericKept(g) == [exc |-> "", msg |-> <<>>, v |-> g]

\* "if major.isnumeric(): major = int(major)" on a group of the regex: v is
\* the value of the field. int() raises ValueError when the decimal digits
\* the text starts with are more than MaxStrDigits, and when a character is
\* numeric and no decimal digit; its message shows 200 characters of the
\* repr of the text
Numeric(g) ==
    IF Len(g.s) = 0 \/ ~AllIn(g.s, NumericChars)
    THEN [exc |-> "", msg |-> <<>>, v |-> g]
    ELSE Only({IF run > MaxStrDigits
               THEN [exc |-> "ValueError",
                     msg |-> ExceedsPrefix \o IntStr(MaxStrDigits) \o ExceedsMiddle
                             \o IntStr(run) \o ExceedsSuffix,
                     v |-> NoneV]
               ELSE IF run < Len(g.s)
               THEN [exc |-> "ValueError",
                     msg |-> InvalidLiteralPrefix
                             \o Take(<<"'">> \o g.s \o <<"'">>, 200),
                     v |-> NoneV]
               ELSE [exc |-> "", msg |-> <<>>, v |-> IntV(ToInt(g.s))] :
                   run \in {RunEnd(g.s, 1, Digits) - 1}})

\* the commit_time group: "^" when absent, a datetime when fromisoformat
\* accepts it, the raw text otherwise
CommitTimeOf(g) ==
    IF g.k = "none" THEN StrV(<<"^">>)
    ELSE IF g.s \in {<<"^">>, <<"*">>, <<"-">>} THEN g
    ELSE Only({IF r.ok THEN DtV(r.dt) ELSE g : r \in {FromIsoFormat(g.s)}})

\* _parse(s) without the cache: exc is "" or the exception raised, q holds
\* the returned 6-tuple. The int() of major, minor and patch come in this
\* order, before the commit time is looked at
ParseTuple(s) ==
    Only({IF ~m.ok
          THEN [exc |-> "ValueError", msg |-> InvalidPrefix \o s, q |-> NoQuery]
          ELSE Only({IF major.exc # ""
                     THEN [exc |-> major.exc, msg |-> major.msg, q |-> NoQuery]
                     ELSE IF minor.exc # ""
                     THEN [exc |-> minor.exc, msg |-> minor.msg, q |-> NoQuery]
                     ELSE IF patch.exc # ""
                     THEN [exc |-> patch.exc, msg |-> patch.msg, q |-> NoQuery]
                     ELSE [exc |-> "", msg |-> <<>>,
                           q |-> MkQuery(major.v, minor.v, patch.v,
                                         m.g4, m.g5, CommitTimeOf(m.g6))] :
                         major \in {Numeric(m.g1)}, minor \in {Numeric(m.g2)},
                         patch \in {Numeric(m.g3)}}) :
              m \in {RegexMatch(s)}})

BadPos(v) == v.k = "str" /\ v.s \notin {<<"^">>, <<"*">>, <<"-">>}

\* __post_init__ without the check of branch
PostInitNoBranch(q) ==
    LET pos == <<q.major, q.minor, q.patch, q.commit_time>>
        bad == {i \in 1..4 : BadPos(pos[i])}
        first == CHOOSE i \in bad : \A j \in bad : i <= j
    IN  IF bad # {}
        THEN [exc |-> "ValueError", msg |-> pos[first].s \o MustBeSuffix]
        ELSE IF Truthy(q.build_hash) /\ (IsSym(q.build_hash, "^") \/ IsSym(q.build_hash, "-"))
        THEN [exc |-> "ValueError", msg |-> HashMsg]
        ELSE [exc |-> "", msg |-> <<>>]

\* VersionSearchQuery.__post_init__: exc is "" when the query is accepted
PostInit(q) ==
    LET pos == <<q.major, q.minor, q.patch, q.commit_time>>
        bad == {i \in 1..4 : BadPos(pos[i])}
        first == CHOOSE i \in bad : \A j \in bad : i <= j
    IN  IF bad # {}
        THEN [exc |-> "ValueError", msg |-> pos[first].s \o MustBeSuffix]
        ELSE IF Truthy(q.build_hash) /\ (IsSym(q.build_hash, "^") \/ IsSym(q.build_hash, "-"))
        THEN [exc |-> "ValueError", msg |-> HashMsg]
        ELSE IF Truthy(q.branch) /\ (IsSym(q.branch, "^") \/ IsSym(q.branch, "-"))
        THEN [exc |-> "ValueError", msg |-> BranchMsg]
        ELSE [exc |-> "", msg |-> <<>>]

\* the constructor without __post_init__
ConstructUnchecked(q) == [exc |-> "", msg |-> <<>>, q |-> q]

\* VersionSearchQuery(major, minor, patch, branch, build_hash, commit_time)
Construct(q) ==
    LET v == PostInit(q)
    IN  [exc |-> v.exc, msg |-> v.msg, q |-> IF v.exc = "" THEN q ELSE NoQuery]

\* VersionSearchQuery.parse(s), given the outcome of _parse(s)
ParseWith(t) == IF t.exc # "" THEN t ELSE Construct(t.q)

\* VersionSearchQuery.__str__
ToStr(q) ==
    Fmt(q.major) \o <<".">> \o Fmt(q.minor) \o <<".">> \o Fmt(q.patch)
    \o (IF Truthy(q.branch) THEN <<"-">> \o Fmt(q.branch) ELSE <<>>)
    \o (IF Truthy(q.build_hash) THEN <<"+">> \o Fmt(q.build_hash) ELSE <<>>)
    \o (IF Truthy(q.commit_time) THEN <<"@">> \o Fmt(q.commit_time) ELSE <<>>)

\* VersionSearchQuery.default()
Default ==
    Construct(MkQuery(StrV(<<"^">>), StrV(<<"^">>), StrV(<<"^">>), NoneV, NoneV,
                      StrV(<<"^">>)))

\* a helper that copies self.branch instead of taking its argument
WithBranchKept(q, branch) == Construct(q)

\* self.with_branch(branch): a new object built by the constructor
WithBranch(q, branch) == Construct([q EXCEPT !.branch = branch])

\* self.with_build_hash(build_hash)
WithBuildHash(q, build_hash) == Construct([q EXCEPT !.build_hash = build_hash])

\* self.with_commit_time(commit_time)
WithCommitTime(q, commit_time) == Construct([q EXCEPT !.commit_time = commit_time])

----------------------------------------------------------------------------
(* BasicBuildInfo and BInfoMatcher.match *)

\* BasicBuildInfo(Version(major, minor, patch), branch, build_hash, commit_time)
MkBuild(major, minor, patch, branch, build_hash, commit_time) ==
    [major |-> major, minor |-> minor, patch |-> patch, branch |-> branch,
     build_hash |-> build_hash, commit_time |-> commit_time]

NoBuild == MkBuild(0, 0, 0, <<>>, <<>>, NullDt)

\* BasicBuildInfo.from_buildinfo(buildinfo), local being the UTC offset of the
\* system time zone: the record in b, or the exception of astimezone
FromBuildInfo(bi, local) ==
    Only({IF u.exc # "" THEN [exc |-> u.exc, msg |-> u.msg, b |-> NoBuild]
          ELSE [exc |-> "", msg |-> <<>>,
                b |-> MkBuild(bi.major, bi.minor, bi.patch, bi.branch,
                              IF bi.build_hash.k = "none" THEN <<>> ELSE bi.build_hash.s,
                              u.dt)] :
              u \in {AsTimezoneUtc(bi.commit_time, local)}})

\* the fields in the order of the query text instead
PlacesTextual == <<"major", "minor", "patch", "branch", "build_hash", "commit_time">>

\* the field priority of match
Places == <<"build_hash", "major", "minor", "patch", "branch", "commit_time">>

\* attrgetter(place)(v) of a build
GetB(v, place) ==
    IF place = "major" THEN IntV(v.major)
    ELSE IF place = "minor" THEN IntV(v.minor)
    ELSE IF place = "patch" THEN IntV(v.patch)
    ELSE IF place = "branch" THEN StrV(v.branch)
    ELSE IF place = "build_hash" THEN StrV(v.build_hash)
    ELSE DtV(v.commit_time)

\* attrgetter(place)(s) of a query
GetQ(q, place) == q[place]

\* a < b on two ints or two datetimes
PyLt(a, b) == IF a.k = "dt" THEN DtLt(a.dt, b.dt) ELSE a.n < b.n

\* max()/min() compare a naive with an aware datetime: TypeError
Mixed(vs, place) ==
    \E i, j \in 1..Len(vs) :
        GetB(vs[i], place).k = "dt" /\ GetB(vs[i], place).dt.tz # GetB(vs[j], place).dt.tz

\* the value of the first candidate instead of the largest
MaxOfFirst(vs, place) == GetB(vs[1], place)

\* max(getter(v) for v in versions) of a non-empty sequence
MaxOf(vs, place) ==
    LET vals == {GetB(vs[i], place) : i \in 1..Len(vs)}
    IN  CHOOSE m \in vals : \A o \in vals : ~PyLt(m, o)

\* min(getter(v) for v in versions) of a non-empty sequence
MinOf(vs, place) ==
    LET vals == {GetB(vs[i], place) : i \in 1..Len(vs)}
    IN  CHOOSE m \in vals : \A o \in vals : ~PyLt(o, m)

\* the kept builds in reverse order
KeepEqReversed(vs, place, p) ==
    LET Test(v) == PyEq(GetB(v, place), p)
        kept == SelectSeq(vs, Test)
    IN  [i \in 1..Len(kept) |-> kept[Len(kept) + 1 - i]]

\* [v for v in versions if getter(v) == p]
KeepEq(vs, place, p) ==
    LET Test(v) == PyEq(GetB(v, place), p)
    IN  SelectSeq(vs, Test)

\* the loop of match from the i-th place on, with the current candidates vs;
\* steps counts the places whose query value was read
RECURSIVE MatchFrom(_, _, _)
MatchFrom(vs, q, i) ==
    IF i > Len(Places) THEN [exc |-> "", res |-> vs, steps |-> Len(Places)]
    ELSE
      LET place == Places[i]
          p == GetQ(q, place)
          extremum == IsSym(p, "^") \/ IsSym(p, "-")
          kept == IF IsSym(p, "^") THEN KeepEq(vs, place, MaxOf(vs, place))
                  ELSE IF IsSym(p, "-") THEN KeepEq(vs, place, MinOf(vs, place))
                  ELSE KeepEq(vs, place, p)
      IN  IF IsSym(p, "*") \/ p.k = "none" THEN MatchFrom(vs, q, i + 1)
          ELSE IF extremum /\ Len(vs) = 0
          THEN [exc |-> "ValueError", res |-> <<>>, steps |-> i]
          ELSE IF extremum /\ Mixed(vs, place)
          THEN [exc |-> "TypeError", res |-> <<>>, steps |-> i]
          ELSE IF Len(kept) = 0 THEN [exc |-> "", res |-> <<>>, steps |-> i]
          ELSE MatchFrom(kept, q, i + 1)

\* BInfoMatcher(versions).match(s)
Match(vs, q) == MatchFrom(vs, q, 1)

\* one iteration of the loop of match, at the i-th place, on the local
\* candidates vs: ret tells that the call is over (an exception, or the
\* "return ()" of an emptied candidate list)
Iterate(vs, q, i) ==
    LET place == Places[i]
        p == GetQ(q, place)
        extremum == IsSym(p, "^") \/ IsSym(p, "-")
    IN  IF IsSym(p, "*") \/ p.k = "none" THEN [exc |-> "", vs |-> vs, ret |-> FALSE]
        ELSE IF extremum /\ Len(vs) = 0
        THEN [exc |-> "ValueError", vs |-> <<>>, ret |-> TRUE]
        ELSE IF extremum /\ Mixed(vs, place)
        THEN [exc |-> "TypeError", vs |-> <<>>, ret |-> TRUE]
        ELSE Only({[exc |-> "", vs |-> kept, ret |-> Len(kept) = 0] :
                       kept \in {IF IsSym(p, "^") THEN KeepEq(vs, place, MaxOf(vs, place))
                                 ELSE IF IsSym(p, "-") THEN KeepEq(vs, place, MinOf(vs, place))
                                 ELSE KeepEq(vs, place, p)}})

\* self.versions after an iteration that assigned its candidates to it
SelfVersionsAssigned(held, local) == local

\* self.versions after an iteration: the loop assigns its candidates to the
\* local name versions only
SelfVersions(held, local) == held

----------------------------------------------------------------------------
(* Inputs *)

Sym(c) == StrV(<<c>>)

\* a commit time at midnight UTC of a day of July 2024
UtcDay(d) == MkDt(2024, 7, d, 0, 0, 0, 0, "aware", 0)

\* the patch literal of the matcher's test
LitPatch == 14

Stable == <<"s", "t", "a", "b", "l", "e">>

Daily == <<"d", "a", "i", "l", "y">>

\* a build_hash some builds have; an empty build_hash is what from_buildinfo
\* stores for an unknown hash
Abc == <<"a", "b", "c">>

\* the builds a catalog is made of: two values of every field, with builds
\* of patch 14 on both days
BuildList ==
    <<MkBuild(0, 0, LitPatch, Stable, <<>>, UtcDay(1)),
      MkBuild(0, 1, LitPatch, Daily, Abc, UtcDay(2)),
      MkBuild(1, 0, 0, Stable, Abc, UtcDay(2)),
      MkBuild(1, 1, LitPatch, Daily, <<>>, UtcDay(2)),
      MkBuild(1, 0, LitPatch, Daily, <<>>, UtcDay(1)),
      MkBuild(0, 1, 0, Stable, Abc, UtcDay(1))>>

Builds == {BuildList[i] : i \in 1..Len(BuildList)}

\* the catalogs: every sequence of at most MaxCat builds, repeats included
Catalogs == UNION {[1..n -> Builds] : n \in 0..MaxCat}

\* the queries handed to match: every mode symbol and a literal for each
\* version field and for commit_time; absent, "*" and a literal for branch;
\* absent, a literal some build has and one no build has for build_hash
MatchArgs ==
    {MkQuery(ma, mi, pa, b, h, ct) :
        ma \in {Sym("^"), Sym("*"), Sym("-"), IntV(1)},
        mi \in {Sym("^"), Sym("*"), Sym("-"), IntV(1)},
        pa \in {Sym("^"), Sym("*"), Sym("-"), IntV(LitPatch)},
        b \in {NoneV, Sym("*"), StrV(Daily)},
        h \in {NoneV, StrV(Abc), StrV(<<"f", "f">>)},
        ct \in {Sym("^"), Sym("*"), Sym("-"), DtV(UtcDay(2))}}

\* texts tried for <major>
MajorToks ==
    {<<"4">>,
     <<"0", "4">>,
     <<"^">>,
     <<"*">>,
     <<"-">>,
     <<"x">>,
     <<>>}

\* texts tried for <minor>
MinorToks ==
    {<<"2">>,
     <<"^">>,
     <<>>}

\* texts tried for <patch>
PatchToks ==
    {<<"1", "4">>,
     <<"-">>,
     <<"*">>}

\* texts tried for [-<branch>]
BranchParts ==
    {<<>>,
     <<"-", "d", "a", "i", "l", "y">>,
     <<"-", "a", "-", "b">>,
     <<"-">>,
     <<"-", "*">>}

\* texts tried for [+<build_hash>]
HashParts ==
    {<<>>,
     <<"+", "a", "b", "c">>,
     <<"+">>,
     <<"+", "*">>}

\* texts tried for [@<commit time>]
TimeParts ==
    {<<>>,
     <<"@", "^">>,
     <<"@", "*">>,
     <<"@", "-">>,
     <<"@">>,
     <<"@", "^", "^">>,
     <<"@", "T">>,
     <<"@", "2", "0", "2", "4">>,
     <<"@", "2", "0", "2", "4", "-", "0", "7", "-", "3", "1">>,
     <<"@", "2", "0", "2", "4", "-", "0", "7", "-", "3", "1", "T", "2", "3", ":", "5", "3", ":", "5", "1", "+", "0", "0", ":", "0", "0">>,
     <<"@", "2", "0", "2", "4", "-", "0", "7", "-", "3", "1", " ", "2", "3", ":", "5", "3", ":", "5", "1", "+", "0", "0", ":", "0", "0">>,
     <<"@", "2", "0", "2", "4", "-", "0", "7", "-", "3", "1", " ", "2", "3", ":", "5", "3", ":", "5", "1", "Z">>,
     <<"@", "2", "0", "2", "4", "-", "0", "7", "-", "3", "1", " ", "2", "3", ":", "5", "3", ":", "5", "1">>,
     <<"@", "2", "0", "2", "4", "-", "1", "3", "-", "3", "1", " ", "2", "3", ":", "5", "3", ":", "5", "1">>}

\* texts tried after the query
Suffixes ==
    {<<>>,
     <<"\n">>,
     <<" ">>,
     <<"x">>}

\* a run of MaxStrDigits + 1 digits
LongRun == [i \in 1..(MaxStrDigits + 1) |-> "1"]

\* strings with characters outside ASCII, with the shorter forms of a
\* timestamp, and with a digit run that int() does not convert
EdgeTexts ==
    {<<"1", ".", "2", ".", "3", "-", "a", "", "b">>,
     <<"1", ".", "2", ".", "3", "-", "a", " ", "b">>,
     <<"1", ".", "2", ".", "3", "+", "é">>,
     <<"U+0663", ".", "2", ".", "3">>,
     <<"1", ".", "2", ".", "3", "@", "U+0663">>,
     <<"1", ".", "2", ".", "3", "@", "2", "0", "2", "4", "-", "0", "7", "-", "3", "1", "T", "2", "3", ":", "5", "3">>,
     <<"1", ".", "2", ".", "3", "@", "2", "0", "2", "4", "0", "7", "3", "1">>,
     <<"1", ".", "2", ".", "3", "@", "2", "0", "2", "4", "-", "0", "7", "-", "3", "1", " ", "2", "3", ":", "5", "3", ":", "5", "1", "+", "0", "0", ":", "0", "0", ":", "3", "0">>,
     LongRun \o <<".", "0", ".", "0">>}

\* the strings handed to parse
Texts ==
    {ma \o <<".">> \o mi \o <<".">> \o pa \o b \o h \o ct \o sfx :
        ma \in MajorToks, mi \in MinorToks, pa \in PatchToks, b \in BranchParts,
        h \in HashParts, ct \in TimeParts, sfx \in Suffixes}
    \cup {<<"a", "b", "c">>}
    \cup EdgeTexts

\* commit times given to the constructor: UTC, naive, another offset, and one
\* with microseconds
ArgTimes ==
    {UtcDay(1), MkDt(2024, 7, 1, 0, 0, 0, 0, "naive", 0),
     MkDt(2024, 7, 1, 2, 0, 0, 0, "aware", 120),
     MkDt(2024, 7, 1, 0, 0, 0, 5, "aware", 0)}

\* the arguments given to the VersionSearchQuery constructor
QueryArgs ==
    {MkQuery(ma, mi, pa, b, h, ct) :
        ma \in {IntV(4), Sym("^"), Sym("*"), Sym("-"), Sym("x"), StrV(<<>>)},
        mi \in {IntV(2), Sym("*"), StrV(<<"^", "^">>)},
        pa \in {IntV(LitPatch), Sym("-"), Sym("1")},
        b \in {NoneV, StrV(<<>>), Sym("*"), Sym("^"), Sym("-"),
               StrV(Daily), StrV(<<"a", " ", "b">>), StrV(<<"x", "-", "y">>)},
        h \in {NoneV, StrV(<<>>), Sym("*"), Sym("^"), Sym("-"), StrV(Abc)},
        ct \in {Sym("^"), Sym("*"), Sym("-"), Sym("x"), StrV(<<>>)}
               \cup {DtV(d) : d \in ArgTimes}}

\* tokens of <major>, <minor>, <patch> with the value each stands for
VerCases ==
    {[s |-> <<"4">>, v |-> IntV(4)],
     [s |-> <<"0", "4">>, v |-> IntV(4)],
     [s |-> <<"1", "4">>, v |-> IntV(14)],
     [s |-> <<"U+0663", "U+0664">>, v |-> IntV(34)],
     [s |-> <<"^">>, v |-> Sym("^")],
     [s |-> <<"*">>, v |-> Sym("*")],
     [s |-> <<"-">>, v |-> Sym("-")]}

\* [-<branch>] parts with the branch each stands for
BranchCases ==
    {[s |-> <<>>, v |-> NoneV],
     [s |-> <<"-">> \o Daily, v |-> StrV(Daily)],
     [s |-> <<"-", "a", "-", "b">>, v |-> StrV(<<"a", "-", "b">>)],
     [s |-> <<"-", "*">>, v |-> Sym("*")],
     [s |-> <<"-", "^">>, v |-> Sym("^")],
     [s |-> <<"-", "-">>, v |-> Sym("-")]}

\* [+<build_hash>] parts with the build_hash each stands for
HashCases ==
    {[s |-> <<>>, v |-> NoneV],
     [s |-> <<"+">> \o Abc, v |-> StrV(Abc)],
     [s |-> <<"+", "é", "U+0416">>, v |-> StrV(<<"é", "U+0416">>)]}

\* [@<commit time>] parts with the commit_time each stands for: "^" when the
\* part is absent, the mode symbol, the timestamp, and the text itself when
\* it is neither
TimeCases ==
    {[s |-> <<>>, v |-> Sym("^")],
     [s |-> <<"@", "^">>, v |-> Sym("^")],
     [s |-> <<"@", "*">>, v |-> Sym("*")],
     [s |-> <<"@", "-">>, v |-> Sym("-")],
     [s |-> <<"@", "2", "0", "2", "4", "-", "0", "7", "-", "3", "1", "T", "2", "3", ":", "5", "3", ":", "5", "1", "+", "0", "0", ":", "0", "0">>,
      v |-> DtV(MkDt(2024, 7, 31, 23, 53, 51, 0, "aware", 0))],
     [s |-> <<"@", "2", "0", "2", "4", "-", "0", "7", "-", "3", "1", " ", "2", "3", ":", "5", "3", ":", "5", "1", "+", "0", "0", ":", "0", "0">>,
      v |-> DtV(MkDt(2024, 7, 31, 23, 53, 51, 0, "aware", 0))],
     [s |-> <<"@", "2", "0", "2", "4", "-", "0", "7", "-", "3", "1", " ", "2", "1", ":", "5", "3", ":", "5", "1", "-", "0", "2", ":", "0", "0">>,
      v |-> DtV(MkDt(2024, 7, 31, 21, 53, 51, 0, "aware", 0 - 120))],
     [s |-> <<"@", "2", "0", "2", "4", "-", "0", "7", "-", "3", "1", "T", "2", "3", ":", "5", "3", ":", "5", "1", "Z">>,
      v |-> DtV(MkDt(2024, 7, 31, 23, 53, 51, 0, "aware", 0))],
     [s |-> <<"@", "2", "0", "2", "4", "-", "0", "7", "-", "3", "1", " ", "2", "3", ":", "5", "3", ":", "5", "1">>,
      v |-> DtV(MkDt(2024, 7, 31, 23, 53, 51, 0, "naive", 0))],
     [s |-> <<"@", "2", "0", "2", "4", "-", "0", "7", "-", "3", "1", "T", "2", "3", ":", "5", "3">>,
      v |-> DtV(MkDt(2024, 7, 31, 23, 53, 0, 0, "naive", 0))],
     [s |-> <<"@", "2", "0", "2", "4", "0", "7", "3", "1">>,
      v |-> DtV(MkDt(2024, 7, 31, 0, 0, 0, 0, "naive", 0))],
     [s |-> <<"@", "2", "0", "2", "4", "-", "0", "7", "-", "3", "1", " ", "2", "3", ":", "5", "3", ":", "5", "1", "+", "0", "0", ":", "0", "0", ":", "3", "0">>,
      v |-> DtV([MkDt(2024, 7, 31, 23, 53, 51, 0, "aware", 0) EXCEPT !.offs = 30])],
     [s |-> <<"@", "2", "0", "2", "4">>, v |-> StrV(<<"2", "0", "2", "4">>)],
     [s |-> <<"@", "^", "^">>, v |-> StrV(<<"^", "^">>)],
     [s |-> <<"@", "T">>, v |-> StrV(<<"T">>)]}

\* grammar-conforming strings with a digit run of more than MaxStrDigits
\* digits, whose value is beyond the integers of the model
LongTexts ==
    {LongRun \o <<".", "0", ".", "0">>,
     <<"4", ".">> \o LongRun \o <<".", "*", "-", "^">>}

\* the arguments of the constructor in the runs that go on with the helpers
HelperArgs ==
    {MkQuery(ma, Sym("*"), pa, b, h, ct) :
        ma \in {IntV(4), Sym("^")},
        pa \in {IntV(LitPatch), Sym("-")},
        b \in {NoneV, StrV(Daily), Sym("^")},
        h \in {NoneV, Sym("-")},
        ct \in {Sym("^"), DtV(UtcDay(1)), Sym("x")}}

\* the strings parsed in the runs that go on with the helpers
HelperTexts ==
    {<<"4", ".", "*", ".", "-">>,
     <<"^", ".", "2", ".", "1", "4", "-", "d", "a", "i", "l", "y", "+", "a", "b", "c", "@", "*">>,
     <<"4", ".", "2", ".", "1", "4", "-", "^">>,
     <<"4", ".", "2", ".", "1", "4", "@", "2", "0", "2", "4">>,
     <<"a", "b", "c">>}

\* the values given to with_branch
BranchArgs == {NoneV, StrV(<<>>), Sym("*"), Sym("^"), Sym("-"), StrV(Stable)}

\* the values given to with_build_hash
HashArgs == {NoneV, Sym("*"), Sym("^"), Sym("-"), StrV(Abc)}

\* the values given to with_commit_time
TimeArgs ==
    {Sym("^"), Sym("*"), Sym("x"), DtV(UtcDay(2)),
     DtV(MkDt(2024, 7, 1, 0, 0, 0, 0, "naive", 0))}

\* commit times of upstream build metadata: UTC, naive, another offset
\* (02:00) a day ahead of UTC, values at the two ends of the range of
\* datetime of either fold, and a zero offset of a named timezone
BuildTimes ==
    {UtcDay(1),
     MkDt(2024, 7, 1, 0, 0, 0, 0, "naive", 0),
     MkDt(2024, 7, 1, 1, 30, 0, 0, "aware", 120),
     MkDt(1, 1, 1, 0, 0, 0, 0, "aware", 120),
     MkDt(9999, 12, 31, 23, 0, 0, 0, "naive", 0),
     [MkDt(1, 1, 1, 1, 0, 0, 0, "naive", 0) EXCEPT !.fold = 1],
     [MkDt(9999, 12, 31, 1, 0, 0, 0, "naive", 0) EXCEPT !.fold = 1],
     [UtcDay(2) EXCEPT !.fold = 1, !.named = TRUE]}

\* the BuildInfo objects handed to from_buildinfo (version, branch,
\* build_hash, commit_time), and the arguments of BasicBuildInfo
BuildInfos ==
    {[major |-> 4, minor |-> 2, patch |-> pa, branch |-> Stable, build_hash |-> h,
      commit_time |-> ct] :
        pa \in {0, LitPatch}, h \in {NoneV, StrV(Abc)}, ct \in BuildTimes}

\* UTC offsets of the system time zone, in minutes
LocalOffsets == {0, 120, 0 - 300}

\* the catalogs shared by the threads: none of the builds, and all of them
SharedCatalogs == {<<>>, BuildList}

\* the queries of the threads
ThreadQueries ==
    {MkQuery(Sym("^"), Sym("^"), Sym("^"), NoneV, NoneV, Sym("^")),
     MkQuery(Sym("-"), Sym("*"), Sym("^"), NoneV, NoneV, Sym("^")),
     MkQuery(Sym("^"), Sym("*"), Sym("*"), StrV(Daily), NoneV, Sym("-")),
     MkQuery(Sym("*"), IntV(1), Sym("*"), Sym("*"), StrV(Abc), Sym("*")),
     MkQuery(Sym("*"), Sym("*"), Sym("*"), NoneV, StrV(<<"f", "f">>), Sym("^")),
     MkQuery(IntV(1), Sym("-"), Sym("*"), StrV(Stable), NoneV, DtV(UtcDay(1)))}

\* the threads
Threads == 1..MaxThreads

\* a thread that is not in a call of match
Idle == [st |-> "idle", q |-> NoQuery, i |-> 0, vs |-> <<>>, exc |-> "", met |-> FALSE]

----------------------------------------------------------------------------
(* State *)

VARIABLES
    versions,   \* BInfoMatcher.versions
    args,       \* the arguments of the VersionSearchQuery constructor
    query,      \* the VersionSearchQuery object, NoQuery when there is none
    text,       \* the string given to parse or returned by str
    outcome,    \* what the last constructor or parse call did
    result,     \* what the last match call did
    cache,      \* the functools.cache of _parse
    calls,      \* number of parse calls made
    pc,         \* position of the caller
    supplied,   \* the catalog as it was handed to BInfoMatcher
    threads,    \* the match calls in progress, one per thread
    call        \* the last with_* call: its name and its argument

vars ==
    <<versions, args, query, text, outcome, result, cache, calls, pc, supplied,
      threads, call>>

NoCall == [op |-> "", v |-> NoneV]

NoOutcome == [exc |-> "", msg |-> <<>>, q |-> NoQuery]
NoResult == [exc |-> "", res |-> <<>>, steps |-> 0]

\* a matcher over a catalog and a constructed query
InitMatch ==
    /\ versions \in Catalogs
    /\ args \in MatchArgs
    /\ outcome = Construct(args)
    /\ query = outcome.q
    /\ outcome.exc = ""
    /\ text = <<>>
    /\ result = NoResult
    /\ cache = {}
    /\ calls = 0
    /\ pc = "built"
    /\ supplied = versions
    /\ threads = <<>>
    /\ call = NoCall

\* matcher.match(query)
DoMatch ==
    /\ pc = "built"
    /\ result' = Match(versions, query)
    /\ pc' = "matched"
    /\ UNCHANGED <<versions, args, query, text, outcome, cache, calls, supplied, threads, call>>

NextMatch == DoMatch

SpecMatch == InitMatch /\ [][NextMatch]_vars

\* a caller about to construct a query from arguments
InitQuery ==
    /\ versions = <<>>
    /\ args \in QueryArgs
    /\ query = NoQuery
    /\ outcome = NoOutcome
    /\ text = <<>>
    /\ result = NoResult
    /\ cache = {}
    /\ calls = 0
    /\ pc = "new"
    /\ supplied = versions
    /\ threads = <<>>
    /\ call = NoCall

\* a caller about to parse a string
InitParse ==
    /\ versions = <<>>
    /\ args = NoQuery
    /\ query = NoQuery
    /\ outcome = NoOutcome
    /\ text \in Texts
    /\ result = NoResult
    /\ cache = {}
    /\ calls = 0
    /\ pc = "text"
    /\ supplied = versions
    /\ threads = <<>>
    /\ call = NoCall

\* query = VersionSearchQuery(*args)
DoConstruct ==
    /\ pc = "new"
    /\ outcome' = Construct(args)
    /\ query' = outcome'.q
    /\ pc' = IF outcome'.exc = "" THEN "built" ELSE "rejected"
    /\ UNCHANGED <<versions, args, text, result, cache, calls, supplied, threads, call>>

\* text = str(query)
DoStr ==
    /\ pc = "built"
    /\ text' = ToStr(query)
    /\ pc' = "text"
    /\ UNCHANGED <<versions, args, query, outcome, result, cache, calls, supplied, threads, call>>

\* _parse(s) behind functools.cache: a returned tuple is stored, a raised
\* exception is not
CachedParse(s) ==
    IF \E e \in cache : e.s = s
    THEN (CHOOSE e \in cache : e.s = s).t
    ELSE ParseTuple(s)

\* VersionSearchQuery.parse(text)
DoParse ==
    /\ pc \in {"text", "parsed"}
    /\ calls < MaxCalls
    /\ \E t \in {CachedParse(text)} :
           /\ cache' = IF t.exc = "" THEN cache \cup {[s |-> text, t |-> t]} ELSE cache
           /\ outcome' = ParseWith(t)
    /\ calls' = calls + 1
    /\ pc' = "parsed"
    /\ UNCHANGED <<versions, args, query, text, result, supplied, threads, call>>

NextQuery == DoConstruct \/ DoStr \/ DoParse

SpecQuery == InitQuery /\ [][NextQuery]_vars

NextParse == DoParse

SpecParse == InitParse /\ [][NextParse]_vars

\* a caller about to parse a string put together from the parts of the
\* grammar; args holds the query the parts stand for, as in
\* "parse("1.2.3") == VersionSearchQuery(1, 2, 3)" (no query for a string of
\* LongTexts)
InitGrammar ==
    /\ \/ \E ma, mi, pa \in VerCases, b \in BranchCases, h \in HashCases, ct \in TimeCases :
              /\ args = MkQuery(ma.v, mi.v, pa.v, b.v, h.v, ct.v)
              /\ text = ma.s \o <<".">> \o mi.s \o <<".">> \o pa.s \o b.s \o h.s \o ct.s
       \/ args = NoQuery /\ text \in LongTexts
    /\ versions = <<>>
    /\ query = NoQuery
    /\ outcome = NoOutcome
    /\ result = NoResult
    /\ cache = {}
    /\ calls = 0
    /\ pc = "text"
    /\ supplied = versions
    /\ threads = <<>>
    /\ call = NoCall

SpecGrammar == InitGrammar /\ [][NextParse]_vars

\* a caller about to construct a query from arguments or to parse a string,
\* who goes on with the helpers
InitHelpers ==
    /\ \/ args \in HelperArgs /\ text = <<>> /\ pc = "new"
       \/ args = NoQuery /\ text \in HelperTexts /\ pc = "text"
    /\ versions = <<>>
    /\ query = NoQuery
    /\ outcome = NoOutcome
    /\ result = NoResult
    /\ cache = {}
    /\ calls = 0
    /\ supplied = versions
    /\ threads = <<>>
    /\ call = NoCall

\* query = VersionSearchQuery.default()
DoDefault ==
    /\ pc = "new"
    /\ outcome' = Default
    /\ query' = outcome'.q
    /\ pc' = "built"
    /\ UNCHANGED <<versions, args, text, result, cache, calls, supplied, threads, call>>

\* query.with_branch(v); query stays the object the helper was called on
DoWithBranch ==
    /\ pc = "built"
    /\ \E v \in BranchArgs :
           /\ call' = [op |-> "with_branch", v |-> v]
           /\ outcome' = WithBranch(query, v)
    /\ pc' = "derived"
    /\ UNCHANGED <<versions, args, query, text, result, cache, calls, supplied, threads>>

\* query.with_build_hash(v)
DoWithBuildHash ==
    /\ pc = "built"
    /\ \E v \in HashArgs :
           /\ call' = [op |-> "with_build_hash", v |-> v]
           /\ outcome' = WithBuildHash(query, v)
    /\ pc' = "derived"
    /\ UNCHANGED <<versions, args, query, text, result, cache, calls, supplied, threads>>

\* query.with_commit_time(v)
DoWithCommitTime ==
    /\ pc = "built"
    /\ \E v \in TimeArgs :
           /\ call' = [op |-> "with_commit_time", v |-> v]
           /\ outcome' = WithCommitTime(query, v)
    /\ pc' = "derived"
    /\ UNCHANGED <<versions, args, query, text, result, cache, calls, supplied, threads>>

\* the caller goes on with the query that parse or a helper returned
DoUse ==
    /\ pc \in {"derived", "parsed"}
    /\ outcome.exc = ""
    /\ query' = outcome.q
    /\ pc' = "built"
    /\ UNCHANGED <<versions, args, text, outcome, result, cache, calls, supplied, threads, call>>

NextHelpers ==
    \/ DoConstruct
    \/ DoDefault
    \/ DoParse
    \/ DoWithBranch
    \/ DoWithBuildHash
    \/ DoWithCommitTime
    \/ DoUse

SpecHelpers == InitHelpers /\ [][NextHelpers]_vars

\* a caller about to put a catalog together
InitBuild ==
    /\ versions = <<>>
    /\ args = NoQuery
    /\ query = NoQuery
    /\ outcome = NoOutcome
    /\ text = <<>>
    /\ result = NoResult
    /\ cache = {}
    /\ calls = 0
    /\ pc = "catalog"
    /\ supplied = <<>>
    /\ threads = <<>>
    /\ call = NoCall

\* versions += (BasicBuildInfo(version, branch, build_hash, commit_time),)
DoDirect ==
    /\ pc = "catalog"
    /\ Len(versions) < MaxCat
    /\ \E bi \in BuildInfos :
           /\ bi.build_hash.k = "str"
           /\ versions' = Append(versions,
                  MkBuild(bi.major, bi.minor, bi.patch, bi.branch, bi.build_hash.s,
                          bi.commit_time))
    /\ UNCHANGED <<args, query, text, outcome, result, cache, calls, pc, supplied, threads, call>>

\* versions += (BasicBuildInfo.from_buildinfo(buildinfo),)
DoFromBuildInfo ==
    /\ pc = "catalog"
    /\ Len(versions) < MaxCat
    /\ \E bi \in BuildInfos, local \in LocalOffsets :
           \E r \in {FromBuildInfo(bi, local)} :
               /\ versions' = IF r.exc = "" THEN Append(versions, r.b) ELSE versions
               /\ outcome' = [exc |-> r.exc, msg |-> r.msg, q |-> NoQuery]
    /\ UNCHANGED <<args, query, text, result, cache, calls, pc, supplied, threads, call>>

NextBuild == DoDirect \/ DoFromBuildInfo

SpecBuild == InitBuild /\ [][NextBuild]_vars

\* a matcher shared by threads that have not called match yet
InitThreads ==
    /\ versions \in SharedCatalogs
    /\ args = NoQuery
    /\ query = NoQuery
    /\ outcome = NoOutcome
    /\ text = <<>>
    /\ result = NoResult
    /\ cache = {}
    /\ calls = 0
    /\ pc = "shared"
    /\ supplied = versions
    /\ threads = [w \in Threads |-> Idle]
    /\ call = NoCall

\* another thread is in the middle of a call of match
Overlaps(w) == \E o \in Threads \ {w} : threads[o].st = "running" /\ threads[o].i > 1

\* thread w calls matcher.match(q): "versions = self.versions"
DoCall(w) ==
    /\ threads[w].st = "idle"
    /\ \E q \in ThreadQueries :
           threads' = [threads EXCEPT ![w] =
               [st |-> "running", q |-> q, i |-> 1, vs |-> versions, exc |-> "",
                met |-> FALSE]]
    /\ UNCHANGED <<versions, args, query, text, outcome, result, cache, calls, pc, supplied, call>>

\* thread w runs one iteration of the loop; after the last place, or when the
\* iteration ends the call, it returns or raises
DoIterate(w) ==
    /\ threads[w].st = "running"
    /\ \E r \in {Iterate(threads[w].vs, threads[w].q, threads[w].i)} :
           /\ threads' = [threads EXCEPT ![w] =
                  [st |-> IF r.exc # "" THEN "raised"
                          ELSE IF r.ret \/ threads[w].i = Len(Places) THEN "returned"
                          ELSE "running",
                   q |-> threads[w].q,
                   i |-> IF r.ret \/ threads[w].i = Len(Places) THEN threads[w].i
                         ELSE threads[w].i + 1,
                   vs |-> r.vs,
                   exc |-> r.exc,
                   met |-> threads[w].met \/ Overlaps(w)]]
           /\ versions' = SelfVersions(versions, r.vs)
    /\ UNCHANGED <<args, query, text, outcome, result, cache, calls, pc, supplied, call>>

NextThreads == \E w \in Threads : DoCall(w) \/ DoIterate(w)

SpecThreads == InitThreads /\ [][NextThreads]_vars

----------------------------------------------------------------------------
(* Properties of match *)

\* r is c with some elements left out
IsSubseq(r, c) ==
    \E f \in [1..Len(r) -> 1..Len(c)] :
        /\ \A i, j \in 1..Len(r) : i < j => f[i] < f[j]
        /\ \A i \in 1..Len(r) : r[i] = c[f[i]]

\* one narrowing step on the candidates cs for the query value p of a field
NarrowStep(cs, place, p) ==
    LET Largest(v) == \A i \in 1..Len(cs) : ~PyLt(GetB(v, place), GetB(cs[i], place))
        Smallest(v) == \A i \in 1..Len(cs) : ~PyLt(GetB(cs[i], place), GetB(v, place))
        Equal(v) == PyEq(GetB(v, place), p)
    IN  IF IsSym(p, "*") \/ p.k = "none" THEN cs
        ELSE IF IsSym(p, "^") THEN SelectSeq(cs, Largest)
        ELSE IF IsSym(p, "-") THEN SelectSeq(cs, Smallest)
        ELSE SelectSeq(cs, Equal)

\* progressive narrowing in the order build_hash, major, minor, patch,
\* branch, commit_time
Narrowed(cs, q) ==
    NarrowStep(NarrowStep(NarrowStep(NarrowStep(NarrowStep(NarrowStep(cs,
        "build_hash", q.build_hash), "major", q.major), "minor", q.minor),
        "patch", q.patch), "branch", q.branch), "commit_time", q.commit_time)

\* C2: for every catalog and query, match returns the progressive narrowing
\* of the catalog in the order build_hash, major, minor, patch, branch,
\* commit_time
C2_MatchIsNarrowing ==
    pc = "matched" => (result.exc = "" /\ result.res = Narrowed(versions, query))

\* VersionSearchQuery("^", "^", "*", commit_time="*")
ScopeQuery == MkQuery(Sym("^"), Sym("^"), Sym("*"), NoneV, NoneV, Sym("*"))

\* (major, minor) of v is the largest pair present in the catalog c
LargestPair(v, c) ==
    \A i \in 1..Len(c) :
        \/ c[i].major < v.major
        \/ c[i].major = v.major /\ c[i].minor <= v.minor

\* C3: for every catalog, the query ^.^.* with any commit time returns exactly
\* the builds of the largest (major, minor) pair of the catalog, in catalog
\* order
C3_ExtremumScoping ==
    (pc = "matched" /\ query = ScopeQuery) =>
        LET Top(v) == LargestPair(v, versions)
        IN  result.exc = "" /\ result.res = SelectSeq(versions, Top)

\* C4: the sequence match returns is a subsequence of the catalog
C4_ResultIsSubsequence ==
    (pc = "matched" /\ result.exc = "") => IsSubseq(result.res, versions)

\* a match that kept the second of two different builds and dropped the first
C4_Witness ==
    /\ pc = "matched" /\ result.exc = ""
    /\ Len(versions) = 2 /\ versions[1] # versions[2]
    /\ result.res = <<versions[2]>>

\* C5: match never raises, whatever the catalog and the query
C5_MatchCannotFail == pc = "matched" => result.exc = ""

\* VersionSearchQuery("*", "*", 14): branch and build_hash default to None,
\* commit_time to "^"
ExactQuery == MkQuery(Sym("*"), Sym("*"), IntV(LitPatch), NoneV, NoneV, Sym("^"))

\* C7 as stated: the query *.*.14 returns exactly the builds whose patch is
\* 14, whatever their commit_time
C7_AllOfPatch ==
    (pc = "matched" /\ query = ExactQuery) =>
        LET Is14(v) == v.patch = LitPatch
        IN  result.exc = "" /\ result.res = SelectSeq(versions, Is14)

\* C7 amended: the query *.*.14 returns exactly the builds whose patch is 14
\* and whose commit_time is the latest among the builds of patch 14
C7_NewestOfPatch ==
    (pc = "matched" /\ query = ExactQuery) =>
        LET Newest14(v) ==
                /\ v.patch = LitPatch
                /\ \A i \in 1..Len(versions) :
                       versions[i].patch = LitPatch =>
                           ~DtLt(v.commit_time, versions[i].commit_time)
        IN  result.exc = "" /\ result.res = SelectSeq(versions, Newest14)

\* the query *.*.14 on two builds of patch 14, the first one the newer
C7_Witness ==
    /\ pc = "matched" /\ query = ExactQuery
    /\ Len(versions) = 2
    /\ versions[1].patch = LitPatch /\ versions[2].patch = LitPatch
    /\ DtLt(versions[2].commit_time, versions[1].commit_time)
    /\ result.res = <<versions[1]>>

\* the build_hash of the query is a literal that no build of the catalog has
HashUnknown ==
    /\ query.build_hash.k = "str" /\ ~IsSym(query.build_hash, "*")
    /\ \A i \in 1..Len(versions) : versions[i].build_hash # query.build_hash.s

\* C8: with a build_hash literal that no build has, match returns the empty
\* sequence whatever the other fields are, and reads no field after build_hash
C8_EmptyShortCircuit ==
    (pc = "matched" /\ HashUnknown) =>
        (result.exc = "" /\ result.res = <<>> /\ result.steps = 1)

\* an unknown build_hash in a query whose other fields match some build
C8_Witness ==
    /\ pc = "matched" /\ HashUnknown
    /\ Len(versions) > 0
    /\ Match(versions, [query EXCEPT !.build_hash = NoneV]).res # <<>>
    /\ result.res = <<>>

----------------------------------------------------------------------------
(* Properties of the query grammar *)

\* C1: for every legal query q, parse(str(q)) succeeds and equals q
C1_RoundTrip ==
    (pc = "parsed" /\ query # NoQuery) =>
        (outcome.exc = "" /\ QueryEq(outcome.q, query))

\* the string matches the regular expression, and its commit-time text is
\* neither a mode symbol nor accepted by fromisoformat
LenientCase(s) ==
    \E m \in {RegexMatch(s)} :
        /\ m.ok
        /\ m.g6.k = "str"
        /\ m.g6.s \notin {<<"^">>, <<"*">>, <<"-">>}
        /\ ~FromIsoFormat(m.g6.s).ok

\* C6: in the lenient case parse does not fail, the query it returns has the
\* raw commit-time text as commit_time, and matching with it gives an empty
\* result and no error
C6_LenientCommitTime ==
    (pc = "parsed" /\ LenientCase(text)) =>
        /\ outcome.exc = ""
        /\ outcome.q.commit_time = RegexMatch(text).g6
        /\ \A c \in Catalogs :
               Match(c, outcome.q).exc = "" /\ Match(c, outcome.q).res = <<>>

Modes == {Sym("^"), Sym("*"), Sym("-")}

\* the arguments break a rule of the constructor: "^" or "-" as branch or
\* build_hash, or a string that is no mode symbol as major, minor, patch or
\* commit_time
Illegal(a) ==
    \/ a.branch \in {Sym("^"), Sym("-")}
    \/ a.build_hash \in {Sym("^"), Sym("-")}
    \/ \E v \in {a.major, a.minor, a.patch, a.commit_time} : v.k = "str" /\ v \notin Modes

\* C9: the constructor fails with a validation error on illegal arguments
\* and produces no query object
C9_ConstructionRejects ==
    (pc # "new" /\ Illegal(args)) =>
        (pc = "rejected" /\ outcome.exc = "ValueError" /\ query = NoQuery)

\* a rejected construction whose only fault is branch = "^"
C9_Witness ==
    /\ pc = "rejected"
    /\ args.branch = Sym("^")
    /\ ~Illegal([args EXCEPT !.branch = NoneV])
    /\ outcome.msg = BranchMsg

\* the whole string, up to its last character, is an instance of
\* <major>.<minor>.<patch>[-<branch>][+<build_hash>][@<commit time>]
InGrammar(s) == RegexMatch(s).ok /\ s[Len(s)] # "\n"

\* C10: on a string that is no instance of the grammar parse fails with an
\* error whose message contains the string, and returns no query
C10_MalformedInput ==
    (pc = "parsed" /\ ~InGrammar(text)) =>
        (outcome.exc = "ValueError" /\ Contains(outcome.msg, text) /\ outcome.q = NoQuery)

\* C11: parse accepts a string only if the whole string, from its first to
\* its last character, is an instance of the grammar; a string with an extra
\* character after a conforming prefix, a trailing newline included, is
\* rejected
C11_AnchoredParse ==
    (pc = "parsed" /\ outcome.exc = "") => InGrammar(text)

\* C12 as stated: for every grammar-conforming string parse returns the query
\* whose fields are the values its parts stand for
C12_ParseFields ==
    pc = "parsed" => (outcome.exc = "" /\ outcome.q = args)

\* major, minor or patch of the string is a run of more than MaxStrDigits
\* digits
HasLongRun(s) ==
    \E m \in {RegexMatch(s)} :
        m.ok /\ \E g \in {m.g1, m.g2, m.g3} : Len(g.s) > MaxStrDigits

\* C12 amended: parse returns the query whose fields are the values the parts
\* stand for, unless a digit run has more than 4300 digits, where it fails
\* with the error of int(), or the text after "@" is neither a mode symbol
\* nor a timestamp, where it fails with the constructor's error naming that
\* text, or the branch part is "^" or "-", where it fails with the
\* constructor's error on the branch; it returns no query then
C12_ParseLegalFields ==
    pc = "parsed" =>
        IF HasLongRun(text)
        THEN /\ outcome.exc = "ValueError" /\ outcome.q = NoQuery
             /\ Slice(outcome.msg, 1, Len(ExceedsPrefix)) = ExceedsPrefix
        ELSE IF args.commit_time.k = "str" /\ args.commit_time \notin Modes
        THEN /\ outcome.exc = "ValueError" /\ outcome.q = NoQuery
             /\ outcome.msg = args.commit_time.s \o MustBeSuffix
        ELSE IF args.branch \in {Sym("^"), Sym("-")}
        THEN outcome.exc = "ValueError" /\ outcome.msg = BranchMsg /\ outcome.q = NoQuery
        ELSE outcome.exc = "" /\ outcome.q = args

\* a parsed string with a digit run of ASCII digits and one of Arabic-Indic
\* digits, a branch, a build_hash and a timestamp
C12_Witness ==
    /\ pc = "parsed" /\ outcome.exc = ""
    /\ args.major = IntV(4) /\ args.minor = IntV(34)
    /\ args.branch = StrV(Daily) /\ args.build_hash = StrV(Abc)
    /\ args.commit_time.k = "dt"
    /\ outcome.q = args

\* C13: for every legal query q and every catalog, matching with
\* parse(str(q)) returns the same sequence of records as matching with q
C13_SerializationPreservesMatching ==
    (pc = "parsed" /\ query # NoQuery) =>
        /\ outcome.exc = ""
        /\ \A c \in Catalogs :
               \E a \in {Match(c, outcome.q)}, b \in {Match(c, query)} :
                   a.exc = b.exc /\ a.res = b.res

----------------------------------------------------------------------------
(* Further properties of match *)

\* C19: matching q against the records returned by matching q against the
\* catalog returns those same records in the same order
C19_Idempotent ==
    pc = "matched" =>
        /\ result.exc = ""
        /\ \E again \in {Match(result.res, query)} :
               again.exc = "" /\ again.res = result.res

----------------------------------------------------------------------------
(* Properties of the helpers and of the queries in existence *)

\* the field a helper replaces
Field(op) ==
    IF op = "with_branch" THEN "branch"
    ELSE IF op = "with_build_hash" THEN "build_hash"
    ELSE "commit_time"

\* the value is one the constructor takes for the field of the helper
LegalValue(op, v) ==
    IF op = "with_commit_time" THEN ~(v.k = "str" /\ v \notin Modes)
    ELSE v \notin {Sym("^"), Sym("-")}

\* C14 as stated: each helper returns a new query in which the named field
\* has the given value and the other five fields are those of the original,
\* and leaves the original unchanged
C14_HelpersReplaceOneField ==
    [][pc' = "derived" =>
          /\ outcome'.exc = ""
          /\ outcome'.q = [query EXCEPT ![Field(call'.op)] = call'.v]
          /\ query' = query]_vars

\* C14 amended: given a value that is legal for the field, each helper
\* returns a new query in which the named field has the given value and the
\* other five fields are those of the original; given "^" or "-" as branch or
\* build_hash, or a string that is no mode symbol as commit_time, it fails
\* with a validation error and returns no query; the original is unchanged
\* in both cases
C14_HelpersReplaceLegalField ==
    [][pc' = "derived" =>
          /\ query' = query
          /\ IF LegalValue(call'.op, call'.v)
             THEN /\ outcome'.exc = ""
                  /\ outcome'.q = [query EXCEPT ![Field(call'.op)] = call'.v]
             ELSE outcome'.exc = "ValueError" /\ outcome'.q = NoQuery]_vars

\* with_branch has returned a query whose branch differs from the original's
C14_Witness ==
    /\ pc = "derived" /\ call.op = "with_branch"
    /\ outcome.exc = ""
    /\ outcome.q.branch = call.v /\ query.branch # call.v
    /\ outcome.q = [query EXCEPT !.branch = call.v]

\* major, minor, patch and commit_time are literals or mode symbols, branch
\* and build_hash are absent or strings other than "^" and "-"
LegalQuery(q) ==
    /\ \A f \in {"major", "minor", "patch", "commit_time"} :
           q[f].k \in {"int", "dt"} \/ q[f] \in Modes
    /\ \A f \in {"branch", "build_hash"} :
           q[f].k = "none" \/ (q[f].k = "str" /\ q[f] \notin {Sym("^"), Sym("-")})

\* C17: every query produced by construction, parse, default and the helpers
\* satisfies the query invariant, and an operation that would produce a query
\* violating it fails and produces none
C17_QueryInvariant ==
    /\ query # NoQuery => LegalQuery(query)
    /\ outcome.q # NoQuery => LegalQuery(outcome.q)
    /\ outcome.exc # "" => outcome.q = NoQuery
    /\ (pc = "rejected" \/ (pc = "built" /\ outcome.q = args)) =>
           (LegalQuery(args) <=> outcome.exc = "")
    /\ pc = "derived" =>
           (LegalQuery([query EXCEPT ![Field(call.op)] = call.v]) <=> outcome.exc = "")

\* with_commit_time("x") on a legal query has failed
C17_Witness ==
    /\ pc = "derived" /\ call = [op |-> "with_commit_time", v |-> Sym("x")]
    /\ LegalQuery(query)
    /\ outcome.exc = "ValueError" /\ outcome.q = NoQuery

----------------------------------------------------------------------------
(* Properties of the build records *)

\* C16: every build record of a catalog has an aware commit_time whose UTC
\* offset is zero, however the record was constructed
C16_UtcCommitTime ==
    \A i \in 1..Len(versions) :
        /\ versions[i].commit_time.tz = "aware"
        /\ versions[i].commit_time.off = 0
        /\ versions[i].commit_time.offs = 0
        /\ versions[i].commit_time.offus = 0

----------------------------------------------------------------------------
(* Properties of a shared matcher *)

\* thread w is out of its call of match
Done(w) == threads[w].st \in {"returned", "raised"}

\* C15: after any sequence of match calls the catalog held by the matcher has
\* the same records, with the same field values, in the same order as when
\* it was supplied
C15_CatalogNeverMutated ==
    pc = "shared" => versions = supplied

\* every thread is out of a call that narrowed the catalog, which is not empty
C15_Witness ==
    /\ pc = "shared" /\ Len(supplied) > 0
    /\ \A w \in Threads :
           threads[w].st = "returned" /\ Len(threads[w].vs) < Len(supplied)
    /\ versions = supplied

\* C18: under every interleaving of the iterations of concurrent calls, each
\* call returns, or raises, exactly what it does when run alone on the catalog
C18_ConcurrentMatchAsAlone ==
    pc = "shared" =>
        \A w \in Threads :
            Done(w) =>
                \E alone \in {Match(supplied, threads[w].q)} :
                    threads[w].exc = alone.exc /\ threads[w].vs = alone.res

\* two calls whose iterations overlapped have both returned builds, and not
\* the same ones
C18_Witness ==
    /\ pc = "shared"
    /\ \E w, o \in Threads :
           /\ w # o
           /\ threads[w].st = "returned" /\ threads[o].st = "returned"
           /\ threads[w].met /\ threads[o].met
           /\ threads[w].vs # <<>> /\ threads[o].vs # <<>>
           /\ threads[w].vs # threads[o].vs

====
